---- MODULE Spec2Model ----
(***************************************************************************)
(* A model of wpmm's provisioning and introspection core                   *)
(* (src/lib/utils/wordpress.js): the comment stripper, the config          *)
(* templater, the salt generator, the archive extractor, the asset         *)
(* fetcher and the installation scanner.                                   *)
(*                                                                         *)
(* JavaScript strings are modelled as sequences of one-character strings,  *)
(* indices are 0-based as in the source, and -1 is "not found".            *)
(***************************************************************************)
EXTENDS Integers, Sequences, FiniteSets, TLC

VARIABLES
    \* uncommentedLines
    content,        \* the text handed to uncommentedLines
    uncommented,    \* what the first call returned
    uncommented2,   \* what the call on that result returned
    inBlockTrace,   \* inBlockComment after each line of the first call
    stripPc         \* "start" | "stripped" | "restripped"

VARIABLES
    \* extractZip
    zipEntries,     \* the file names onEntry has been called with, in order
    commonRootPath, \* the closure variable: [def, str], def = FALSE is undefined
    truncated,      \* history: the candidate was narrowed to the empty string
    extractFailed,  \* history: extract() rejected (archive unreadable, dir unwritable)
    extractPromise  \* the promise extractZip returned: [state, kind, str]

VARIABLES
    \* downloadFile
    frames,         \* the invocations of downloadFile, outermost first
    targetExists,   \* fs.existsSync(targetFile)
    unhandled       \* rejected promises nobody handles

VARIABLES
    \* Dump.scanDirectory
    children,       \* the directory's children as fs.readdirSync lists them
    scanResult,     \* the returned array of {name, version}
    scanThrew,      \* the call raised
    scanPc          \* "start" | "done"

VARIABLES
    \* replaceDbConstant, replaceDbConstantBool, replaceEmptySalts
    configContent,  \* the text of wp-config.php handed to the call
    tplCall,        \* the call made: [op, name, value]
    tplResult,      \* the text it returned
    tplSource,      \* the source of the draws of replaceEmptySalts
    tplPc           \* "start" | "done"

VARIABLES
    \* generateSalt
    salt,           \* the returned string
    saltSource,     \* the source of its draws
    saltPc          \* "start" | "generated"

stripVars == <<content, uncommented, uncommented2, inBlockTrace, stripPc>>

extractVars == <<zipEntries, commonRootPath, truncated, extractFailed, extractPromise>>

fetchVars == <<frames, targetExists, unhandled>>

scanVars == <<children, scanResult, scanThrew, scanPc>>

tplVars == <<configContent, tplCall, tplResult, tplSource, tplPc>>

saltVars == <<salt, saltSource, saltPc>>

vars == <<stripVars, extractVars, fetchVars, scanVars, tplVars, saltVars>>

----------------------------------------------------------------------------
(* String primitives of JavaScript, on sequences of characters.            *)

Min(a, b) == IF a < b THEN a ELSE b

\* pat occurs in s at 0-based index i
OccursAt(s, pat, i) ==
    /\ i >= 0
    /\ i + Len(pat) <= Len(s)
    /\ \A k \in 1..Len(pat) : s[i + k] = pat[k]

\* String.prototype.indexOf
indexOf(s, pat) ==
    IF \E i \in 0..Len(s) : OccursAt(s, pat, i)
    THEN CHOOSE i \in 0..Len(s) :
            /\ OccursAt(s, pat, i)
            /\ \A j \in 0..(i - 1) : ~OccursAt(s, pat, j)
    ELSE -1

\* String.prototype.slice(from, to) for non-negative arguments
slice(s, from, to) == SubSeq(s, Min(from, Len(s)) + 1, Min(to, Len(s)))

\* String.prototype.slice(from) / substr(from) for a non-negative argument
sliceFrom(s, from) == SubSeq(s, Min(from, Len(s)) + 1, Len(s))

\* String.prototype.split(sep) for a one-character separator: always at
\* least one part, the empty string splits into one empty part
RECURSIVE split(_, _)
split(s, sep) ==
    LET i == indexOf(s, <<sep>>)
    IN  IF i = -1 THEN <<s>>
        ELSE <<slice(s, 0, i)>> \o split(sliceFrom(s, i + 1), sep)

\* Array.prototype.join(sep) for a one-character separator
RECURSIVE join(_, _)
join(parts, sep) ==
    IF Len(parts) = 0 THEN <<>>
    ELSE IF Len(parts) = 1 THEN parts[1]
    ELSE parts[1] \o <<sep>> \o join(Tail(parts), sep)

\* all strings over an alphabet of length at most n
RECURSIVE StringsUpTo(_, _)
StringsUpTo(alphabet, n) ==
    IF n = 0 THEN {<<>>}
    ELSE LET shorter == StringsUpTo(alphabet, n - 1)
         IN  shorter \cup {Append(s, c) : s \in shorter, c \in alphabet}

\* t is s with some characters deleted
RECURSIVE IsSubsequence(_, _)
IsSubsequence(t, s) ==
    IF Len(t) = 0 THEN TRUE
    ELSE IF Len(s) < Len(t) THEN FALSE
    ELSE IF Head(t) = Head(s) THEN IsSubsequence(Tail(t), Tail(s))
    ELSE IsSubsequence(t, Tail(s))

----------------------------------------------------------------------------
(* uncommentedLines                                                        *)

NL == "\n"

OpenMark == <<"/", "*">>

CloseMark == <<"*", "/">>

LineMark == <<"/", "/">>

\* the body of the for loop: one line under the flag inBlockComment; the
\* result is the new line and the flag after it
StripLine(line, inBlockComment) ==
    LET endIn == indexOf(line, CloseMark)
        \* if (inBlockComment) { ... }
        l1 == IF inBlockComment
              THEN IF endIn # -1 THEN sliceFrom(line, endIn + 2) ELSE <<>>
              ELSE line
        b1 == IF inBlockComment THEN endIn = -1 ELSE FALSE
        \* if (!inBlockComment) { ... }
        startCommentIndex == indexOf(l1, OpenMark)
        endCommentIndex == indexOf(l1, CloseMark)
        l2 == IF startCommentIndex # -1 /\ endCommentIndex # -1
              THEN slice(l1, 0, startCommentIndex) \o sliceFrom(l1, endCommentIndex + 2)
              ELSE IF startCommentIndex # -1
              THEN slice(l1, 0, startCommentIndex)
              ELSE l1
        b2 == startCommentIndex # -1 /\ endCommentIndex = -1
        lineCommentIndex == indexOf(l2, LineMark)
        l3 == IF lineCommentIndex # -1 THEN slice(l2, 0, lineCommentIndex) ELSE l2
    IN  IF b1 THEN [newLine |-> l1, inBlockComment |-> TRUE]
        ELSE [newLine |-> l3, inBlockComment |-> b2]

\* the loop over the lines: the output lines and the flag after each line
RECURSIVE StripLines(_, _)
StripLines(lines, inBlockComment) ==
    IF Len(lines) = 0 THEN <<>>
    ELSE LET r == StripLine(Head(lines), inBlockComment)
         IN  <<r>> \o StripLines(Tail(lines), r.inBlockComment)

\* uncommented += newLine + '\n' for every line
RECURSIVE Concatenated(_)
Concatenated(rs) ==
    IF Len(rs) = 0 THEN <<>>
    ELSE Head(rs).newLine \o <<NL>> \o Concatenated(Tail(rs))

FlagsOf(rs) == [i \in 1..Len(rs) |-> rs[i].inBlockComment]

uncommentedLines(text) == Concatenated(StripLines(split(text, NL), FALSE))

MaxContentLen == 6

StripAlphabet == {"/", "*", "a", NL}

StripStart ==
    /\ content \in StringsUpTo(StripAlphabet, MaxContentLen)
    /\ uncommented = <<>>
    /\ uncommented2 = <<>>
    /\ inBlockTrace = <<>>
    /\ stripPc = "start"

Strip ==
    /\ stripPc = "start"
    /\ uncommented' = uncommentedLines(content)
    /\ inBlockTrace' = FlagsOf(StripLines(split(content, NL), FALSE))
    /\ stripPc' = "stripped"
    /\ UNCHANGED <<content, uncommented2>>
    /\ UNCHANGED <<extractVars, fetchVars, scanVars, tplVars, saltVars>>

StripAgain ==
    /\ stripPc = "stripped"
    /\ uncommented2' = uncommentedLines(uncommented)
    /\ stripPc' = "restripped"
    /\ UNCHANGED <<content, uncommented, inBlockTrace>>
    /\ UNCHANGED <<extractVars, fetchVars, scanVars, tplVars, saltVars>>

StripIdle ==
    /\ content = <<>>
    /\ uncommented = <<>>
    /\ uncommented2 = <<>>
    /\ inBlockTrace = <<>>
    /\ stripPc = "idle"

(* A reference reading of block comments, used to state the claims: a      *)
(* block comment runs from a slash-star met outside a block comment to the *)
(* next star-slash after it, or to the end of the input.                   *)
RECURSIVE RefLineFrom(_, _, _, _, _)
RefLineFrom(line, i, inBlock, kept, openedHere) ==
    IF i >= Len(line)
    THEN [kept |-> kept, inBlock |-> inBlock, openedHere |-> openedHere]
    ELSE IF ~inBlock /\ OccursAt(line, OpenMark, i)
    THEN RefLineFrom(line, i + 2, TRUE, kept, TRUE)
    ELSE IF inBlock /\ OccursAt(line, CloseMark, i)
    THEN RefLineFrom(line, i + 2, FALSE, kept, FALSE)
    ELSE IF inBlock
    THEN RefLineFrom(line, i + 1, inBlock, kept, openedHere)
    ELSE RefLineFrom(line, i + 1, inBlock, Append(kept, line[i + 1]), openedHere)

RECURSIVE RefLines(_, _)
RefLines(lines, inBlock) ==
    IF Len(lines) = 0 THEN <<>>
    ELSE LET r == RefLineFrom(Head(lines), 0, inBlock, <<>>, FALSE)
         IN  <<r>> \o RefLines(Tail(lines), r.inBlock)

InputLines == split(content, NL)

OutputLines == split(uncommented, NL)

\* C5: uncommentedLines is idempotent: applying it to its own result gives
\* that result again.
StripIdempotent == stripPc = "restripped" => uncommented2 = uncommented

\* C10: every block comment is absent from the output, a slash-star with no
\* later star-slash on its line sets the block-comment state for the lines
\* that follow, and every output line is its input line with characters
\* deleted.
StripRemovesBlockComments ==
    stripPc # "start" =>
        LET ref == RefLines(InputLines, FALSE)
        IN  \A i \in 1..Len(InputLines) :
                /\ IsSubsequence(OutputLines[i], ref[i].kept)
                /\ (ref[i].inBlock /\ ref[i].openedHere) => inBlockTrace[i]
                /\ IsSubsequence(OutputLines[i], InputLines[i])

----------------------------------------------------------------------------
(* extractZip                                                              *)

SLASH == "/"

Undefined == [def |-> FALSE, str |-> <<>>]

Str(s) == [def |-> TRUE, str |-> s]

\* !commonRootPath: undefined and the empty string are both falsy
Falsy(v) == ~v.def \/ v.str = <<>>

\* the first index of the for loop at which the comparison !== is true, or
\* -1 when the loop runs to its end; parts[i] beyond the end of the
\* candidate's parts is undefined, which differs from every string
FirstDifference(rootParts, entryPathParts) ==
    LET differs(i) == i >= Len(rootParts) \/ rootParts[i + 1] # entryPathParts[i + 1]
        idx == 0..(Len(entryPathParts) - 1)
    IN  IF \E i \in idx : differs(i)
        THEN CHOOSE i \in idx : differs(i) /\ \A j \in 0..(i - 1) : ~differs(j)
        ELSE -1

\* the onEntry callback: the candidate after the entry fileName
onEntry(root, fileName) ==
    LET entryPathParts == split(fileName, SLASH)
        rootParts == split(root.str, SLASH)
        i == FirstDifference(rootParts, entryPathParts)
    IN  IF Falsy(root) THEN Str(entryPathParts[1])
        ELSE IF i # -1 THEN Str(join(SubSeq(rootParts, 1, Min(i, Len(rootParts))), SLASH))
        ELSE root

MaxEntries == 3

MaxNameLen == 3

NameAlphabet == {"a", "b", SLASH}

\* the names of a zip archive's entries: not empty, and relative
FileNames == {f \in StringsUpTo(NameAlphabet, MaxNameLen) : f # <<>> /\ f[1] # SLASH}

ExtractStart ==
    /\ zipEntries = <<>>
    /\ commonRootPath = Undefined
    /\ truncated = FALSE
    /\ extractFailed = FALSE
    /\ extractPromise = [state |-> "pending", kind |-> "none", str |-> <<>>]

ExtractIdle ==
    /\ zipEntries = <<>>
    /\ commonRootPath = Undefined
    /\ truncated = FALSE
    /\ extractFailed = FALSE
    /\ extractPromise = [state |-> "idle", kind |-> "none", str |-> <<>>]

\* extract-zip reads the next entry and calls onEntry with it
OnEntry ==
    /\ extractPromise.state = "pending"
    /\ Len(zipEntries) < MaxEntries
    /\ \E fileName \in FileNames :
        /\ zipEntries' = Append(zipEntries, fileName)
        /\ commonRootPath' = onEntry(commonRootPath, fileName)
        /\ truncated' = (truncated \/ (~Falsy(commonRootPath) /\ Falsy(onEntry(commonRootPath, fileName))))
    /\ UNCHANGED <<extractFailed, extractPromise>>
    /\ UNCHANGED <<stripVars, fetchVars, scanVars, tplVars, saltVars>>

\* what the async function settles its promise with once extract() resolved
ReturnRoot(root) ==
    [state |-> "fulfilled", kind |-> IF root.def THEN "string" ELSE "undefined", str |-> root.str]

\* what it settles its promise with once extract() rejected: the catch block
ReturnOnError == [state |-> "fulfilled", kind |-> "error", str |-> <<>>]

\* await extract(...) resolves; return commonRootPath
ExtractResolves ==
    /\ extractPromise.state = "pending"
    /\ extractPromise' = ReturnRoot(commonRootPath)
    /\ UNCHANGED <<zipEntries, commonRootPath, truncated, extractFailed>>
    /\ UNCHANGED <<stripVars, fetchVars, scanVars, tplVars, saltVars>>

\* await extract(...) rejects, before the first entry (archive unreadable)
\* or after some entries (target directory unwritable); catch (err) return err
ExtractRejects ==
    /\ extractPromise.state = "pending"
    /\ extractFailed' = TRUE
    /\ extractPromise' = ReturnOnError
    /\ UNCHANGED <<zipEntries, commonRootPath, truncated>>
    /\ UNCHANGED <<stripVars, fetchVars, scanVars, tplVars, saltVars>>

\* the segments of the candidate are the first segments of the entry
IsSegmentPrefix(root, fileName) ==
    LET r == split(root, SLASH)
        e == split(fileName, SLASH)
    IN  Len(r) <= Len(e) /\ \A i \in 1..Len(r) : r[i] = e[i]

\* C2: the running candidate is empty or a path-segment prefix of every
\* entry processed so far, and once truncated to empty it stays empty.
CommonRootOnlyNarrows ==
    /\ \A k \in 1..Len(zipEntries) :
          Falsy(commonRootPath) \/ IsSegmentPrefix(commonRootPath.str, zipEntries[k])
    /\ truncated => Falsy(commonRootPath)

\* C6: when the archive cannot be read or the target cannot be written the
\* operation is rejected; it does not complete normally with a value.
ExtractFailureIsRejected ==
    (extractFailed /\ extractPromise.state # "pending") => extractPromise.state = "rejected"

----------------------------------------------------------------------------
(* downloadFile                                                            *)

MaxHops == 3

ResponseCodes == {0, 200, 300, 301, 399, 400, 404}

\* the state of one invocation right after its synchronous part: it returns
\* at once when the target exists, and else issues https.get
\*   req : "none" | "pending" | "error" | "response" | "streaming" | "finished"
\*   P   : the promise of new Promise(...)
\*   D   : the promise the async function downloadFile returned
\*   cb  : the async response callback
NewFrame(exists) ==
    IF exists
    THEN [req |-> "none", code |-> 0, P |-> "none", D |-> "fulfilled", cb |-> "none"]
    ELSE [req |-> "pending", code |-> 0, P |-> "pending", D |-> "pending", cb |-> "none"]

FetchStart ==
    /\ frames = <<>>
    /\ targetExists \in BOOLEAN
    /\ unhandled = FALSE

FetchIdle ==
    /\ frames = <<>>
    /\ targetExists = FALSE
    /\ unhandled = FALSE

\* the caller calls downloadFile(url, targetFile)
Call ==
    /\ frames = <<>>
    /\ frames' = <<NewFrame(targetExists)>>
    /\ UNCHANGED <<targetExists, unhandled>>
    /\ UNCHANGED <<stripVars, extractVars, scanVars, tplVars, saltVars>>

\* the response callback of invocation k, up to its first await
OnResponse(k) ==
    /\ frames[k].req = "pending"
    /\ \E code \in ResponseCodes, location \in BOOLEAN :
        IF code >= 400
        THEN \* return reject(new Error(response.statusMessage))
             /\ frames' = [frames EXCEPT ![k].req = "response", ![k].code = code,
                                          ![k].P = "rejected", ![k].cb = "returned"]
             /\ UNCHANGED <<targetExists, unhandled>>
        ELSE IF code > 300 /\ code < 400 /\ location
        THEN \* resolve(await downloadFile(response.headers.location, targetFile))
             /\ Len(frames) < MaxHops
             /\ frames' = Append([frames EXCEPT ![k].req = "response", ![k].code = code,
                                                 ![k].cb = "awaiting"],
                                  NewFrame(targetExists))
             /\ UNCHANGED <<targetExists, unhandled>>
        ELSE \* response.pipe(fs.createWriteStream(targetFile))
             /\ frames' = [frames EXCEPT ![k].req = "streaming", ![k].code = code,
                                          ![k].cb = "returned"]
             /\ UNCHANGED <<targetExists, unhandled>>
    /\ UNCHANGED <<stripVars, extractVars, scanVars, tplVars, saltVars>>

\* the request's 'error' event: reject(error)
OnError(k) ==
    /\ frames[k].req = "pending"
    /\ frames' = [frames EXCEPT ![k].req = "error", ![k].P = "rejected"]
    /\ UNCHANGED <<targetExists, unhandled>>
    /\ UNCHANGED <<stripVars, extractVars, scanVars, tplVars, saltVars>>

\* the write stream's 'finish' event: resolve({})
OnFinish(k) ==
    /\ frames[k].req = "streaming"
    /\ frames' = [frames EXCEPT ![k].req = "finished", ![k].P = "resolved"]
    /\ targetExists' = TRUE
    /\ UNCHANGED unhandled
    /\ UNCHANGED <<stripVars, extractVars, scanVars, tplVars, saltVars>>

\* what the async function's promise becomes once the awaited promise has
\* settled: return await ... on success, catch (error) throw new Error(error)
Settled(p) == IF p = "resolved" THEN "fulfilled" ELSE "rejected"

\* invocation k resumes after return await new Promise(...)
AwaitPromise(k) ==
    /\ frames[k].D = "pending"
    /\ frames[k].P \in {"resolved", "rejected"}
    /\ frames' = [frames EXCEPT ![k].D = Settled(frames[k].P)]
    /\ UNCHANGED <<targetExists, unhandled>>
    /\ UNCHANGED <<stripVars, extractVars, scanVars, tplVars, saltVars>>

\* what the response callback does once the inner downloadFile has settled:
\* resolve(value) when it fulfilled; when it rejected the await throws inside
\* the callback, whose own promise nobody handles, and neither resolve nor
\* reject is called
ResumeCallback(frame, inner) ==
    IF inner = "fulfilled"
    THEN [frame EXCEPT !.cb = "returned",
                       !.P = IF frame.P = "pending" THEN "resolved" ELSE frame.P]
    ELSE [frame EXCEPT !.cb = "threw"]

\* the response callback of invocation k resumes after await downloadFile(...)
AwaitRedirect(k) ==
    /\ k < Len(frames)
    /\ frames[k].cb = "awaiting"
    /\ frames[k + 1].D \in {"fulfilled", "rejected"}
    /\ frames' = [frames EXCEPT ![k] = ResumeCallback(frames[k], frames[k + 1].D)]
    /\ unhandled' = (unhandled \/ ResumeCallback(frames[k], frames[k + 1].D).cb = "threw")
    /\ UNCHANGED targetExists
    /\ UNCHANGED <<stripVars, extractVars, scanVars, tplVars, saltVars>>

NextFetch ==
    \/ Call
    \/ \E k \in 1..Len(frames) : OnResponse(k)
    \/ \E k \in 1..Len(frames) : OnError(k)
    \/ \E k \in 1..Len(frames) : OnFinish(k)
    \/ \E k \in 1..Len(frames) : AwaitPromise(k)
    \/ \E k \in 1..Len(frames) : AwaitRedirect(k)

\* the last request of the chain ended in a status >= 400 or a transport error
ChainFailed ==
    /\ Len(frames) > 0
    /\ \/ frames[Len(frames)].req = "error"
       \/ frames[Len(frames)].req = "response" /\ frames[Len(frames)].code >= 400

\* C1: for a redirect chain whose last request fails, the promise of the
\* outermost downloadFile call is rejected once nothing is left to run: it
\* is neither left pending nor fulfilled.
FailedChainRejectsOutermost ==
    (ChainFailed /\ ~ENABLED NextFetch) => frames[1].D = "rejected"

----------------------------------------------------------------------------
(* Dump.scanDirectory                                                      *)

MaxChildren == 2

Versions == {"1.0"}

\* a file is absent, or holds a Version: header, or holds none
FileStates == {[exists |-> FALSE, version |-> "null"]}
              \cup {[exists |-> TRUE, version |-> v] : v \in Versions \cup {"null"}}

Absent == [exists |-> FALSE, version |-> "null"]

\* a child of the scanned directory: style is <dir>/<item>/style.css,
\* themeFile is <dir>/<item>/<item>.php, pluginFile is <item>.php, which
\* fs resolves against the current working directory
ChildStates ==
    {c \in [isDirectory : BOOLEAN, style : FileStates, themeFile : FileStates,
            pluginFile : FileStates] :
        ~c.isDirectory => (c.style = Absent /\ c.themeFile = Absent)}

\* extractVersionFromStyleFile / extractVersionFromPHPFile: readFileSync
\* raises on a missing file; else the header's version or null
extractVersion(file) ==
    IF ~file.exists THEN [threw |-> TRUE, version |-> "null"]
    ELSE [threw |-> FALSE, version |-> file.version]

\* one pass of the for loop for the item at index n: what it pushes, and
\* whether it raised
ScanItem(n, c) ==
    LET style == extractVersion(c.style)
        fromStyle == IF c.style.exists /\ style.version # "null"
                     THEN <<[name |-> n, version |-> style.version]>> ELSE <<>>
        theme == extractVersion(c.themeFile)
        plugin == extractVersion(c.pluginFile)
    IN  IF ~c.isDirectory THEN [threw |-> FALSE, items |-> <<>>]
        ELSE IF ~(c.themeFile.exists \/ c.pluginFile.exists)
        THEN [threw |-> FALSE, items |-> fromStyle]
        \* extractVersionFromPHPFile(themeFile) || extractVersionFromPHPFile(pluginFile)
        ELSE IF theme.threw THEN [threw |-> TRUE, items |-> fromStyle]
        ELSE IF theme.version # "null"
        THEN [threw |-> FALSE, items |-> Append(fromStyle, [name |-> n, version |-> theme.version])]
        ELSE IF plugin.threw THEN [threw |-> TRUE, items |-> fromStyle]
        ELSE IF plugin.version # "null"
        THEN [threw |-> FALSE, items |-> Append(fromStyle, [name |-> n, version |-> plugin.version])]
        ELSE [threw |-> FALSE, items |-> fromStyle]

RECURSIVE ScanFrom(_, _, _)
ScanFrom(cs, n, result) ==
    IF n > Len(cs) THEN [threw |-> FALSE, items |-> result]
    ELSE LET r == ScanItem(n, cs[n])
         IN  IF r.threw THEN [threw |-> TRUE, items |-> <<>>]
             ELSE ScanFrom(cs, n + 1, result \o r.items)

ScanStart ==
    /\ children \in UNION {[1..n -> ChildStates] : n \in 0..MaxChildren}
    /\ scanResult = <<>>
    /\ scanThrew = FALSE
    /\ scanPc = "start"

ScanIdle ==
    /\ children = <<>>
    /\ scanResult = <<>>
    /\ scanThrew = FALSE
    /\ scanPc = "idle"

scanDirectory ==
    /\ scanPc = "start"
    /\ scanResult' = ScanFrom(children, 1, <<>>).items
    /\ scanThrew' = ScanFrom(children, 1, <<>>).threw
    /\ scanPc' = "done"
    /\ UNCHANGED children
    /\ UNCHANGED <<stripVars, extractVars, fetchVars, tplVars, saltVars>>

\* C7: scanDirectory never raises: children that are no directory or hold
\* no version source add no item and cause no error, whatever files exist
\* in the current working directory.
ScanNeverRaises == scanPc = "done" => ~scanThrew

----------------------------------------------------------------------------
(* Regular expressions and String.prototype.replace                        *)
(*                                                                         *)
(* The regular expressions of the templater are sequences of literal       *)
(* characters and greedy starred classes, whitespace and not-a-quote; they *)
(* are matched as the JavaScript engine matches them: leftmost start, each *)
(* star taking the longest run that lets the rest match.                   *)

SPACE == " "

QUOTE == "'"

DOLLAR == "$"

\* the grave accent, which a string of this notation cannot hold
GRAVE == "grave"

Whitespace == {SPACE, NL}

\* a run of literal characters
Lit(s) == <<[t |-> "lit", s |-> s, c |-> "none"]>>

\* \s*
SpaceStar == <<[t |-> "star", s |-> <<>>, c |-> "space"]>>

\* [^']*
NotQuoteStar == <<[t |-> "star", s |-> <<>>, c |-> "notquote"]>>

InClass(ch, cls) == IF cls = "space" THEN ch \in Whitespace ELSE ch # QUOTE

\* how many characters of s from the 0-based position si on are in cls
RunLength(s, si, cls) ==
    CHOOSE n \in 0..(Len(s) - si) :
        /\ \A k \in 1..n : InClass(s[si + k], cls)
        /\ n = Len(s) - si \/ ~InClass(s[si + n + 1], cls)

\* the end of the match of re from its element pi on at position si of s,
\* or -1
RECURSIVE MatchEnd(_, _, _, _)
MatchEnd(re, pi, s, si) ==
    IF pi > Len(re) THEN si
    ELSE IF re[pi].t = "lit"
    THEN IF OccursAt(s, re[pi].s, si) THEN MatchEnd(re, pi + 1, s, si + Len(re[pi].s)) ELSE -1
    ELSE LET run == RunLength(s, si, re[pi].c)
             ok == {n \in 0..run : MatchEnd(re, pi + 1, s, si + n) # -1}
         IN  IF ok = {} THEN -1
             ELSE MatchEnd(re, pi + 1, s, si + (CHOOSE n \in ok : \A m \in ok : m <= n))

\* RegExp.prototype.exec without the g flag: the leftmost match
exec(re, s) ==
    LET starts == {i \in 0..Len(s) : MatchEnd(re, 1, s, i) # -1}
        index == CHOOSE i \in starts : \A j \in starts : i <= j
    IN  IF starts = {} THEN [found |-> FALSE, index |-> -1, end |-> -1]
        ELSE [found |-> TRUE, index |-> index, end |-> MatchEnd(re, 1, s, index)]

\* the replacement string with its $ patterns substituted: $$ is a dollar,
\* $& the match, $ with a grave accent the text before it, $' the text after it; the regular
\* expressions here have no groups, so $1..$9 stay as they are
\* the replacement is read from its i-th character on, a stretch without
\* dollar at a time
RECURSIVE GetSubstitution(_, _, _, _, _)
GetSubstitution(repl, i, matched, before, after) ==
    LET dollars == {j \in i..Len(repl) : repl[j] = DOLLAR}
        d == CHOOSE j \in dollars : \A k \in dollars : j <= k
        next == IF d < Len(repl) THEN repl[d + 1] ELSE "none"
        rest(n) == GetSubstitution(repl, n, matched, before, after)
    IN  IF i > Len(repl) THEN <<>>
        ELSE IF dollars = {} THEN SubSeq(repl, i, Len(repl))
        ELSE SubSeq(repl, i, d - 1) \o
             (IF next = DOLLAR THEN <<DOLLAR>> \o rest(d + 2)
              ELSE IF next = "&" THEN matched \o rest(d + 2)
              ELSE IF next = GRAVE THEN before \o rest(d + 2)
              ELSE IF next = QUOTE THEN after \o rest(d + 2)
              ELSE <<DOLLAR>> \o rest(d + 1))

\* String.prototype.replace(regex, replacementString), regex without g
replace(s, re, repl) ==
    LET m == exec(re, s)
        before == slice(s, 0, m.index)
        matched == slice(s, m.index, m.end)
        after == sliceFrom(s, m.end)
    IN  IF ~m.found THEN s
        ELSE before \o GetSubstitution(repl, 1, matched, before, after) \o after

----------------------------------------------------------------------------
(* replaceDbConstant, replaceDbConstantBool                                *)

DefineOpen == <<"d", "e", "f", "i", "n", "e", "(">>

StatementEnd == <<")", ";">>

\* define\(\s*'NAME'\s*,\s*  -- the head all three regular expressions share
DefineHead(constantName) ==
    Lit(DefineOpen) \o SpaceStar \o Lit(<<QUOTE>> \o constantName \o <<QUOTE>>)
    \o SpaceStar \o Lit(<<",">>) \o SpaceStar

\* define\\(\\s*'${constantName}'\\s*,\\s*'[^']*'\\s*\\);
dbConstantRegex(constantName) ==
    DefineHead(constantName) \o Lit(<<QUOTE>>) \o NotQuoteStar \o Lit(<<QUOTE>>)
    \o SpaceStar \o Lit(StatementEnd)

\* define\\(\\s*'${constantName}'\\s*,\\s*[^']*\\s*\\);
dbConstantBoolRegex(constantName) ==
    DefineHead(constantName) \o NotQuoteStar \o SpaceStar \o Lit(StatementEnd)

\* define( '${constantName}', '${userDefinedValue}' );
QuotedDefine(constantName, value) ==
    DefineOpen \o <<SPACE, QUOTE>> \o constantName \o <<QUOTE, ",", SPACE, QUOTE>>
    \o value \o <<QUOTE, SPACE>> \o StatementEnd

\* define( '${constantName}', ${userDefinedValue} );
BareDefine(constantName, value) ==
    DefineOpen \o <<SPACE, QUOTE>> \o constantName \o <<QUOTE, ",", SPACE>>
    \o value \o <<SPACE>> \o StatementEnd

replaceDbConstant(configContent_, constantName, userDefinedValue) ==
    replace(configContent_, dbConstantRegex(constantName),
            QuotedDefine(constantName, userDefinedValue))

replaceDbConstantBool(configContent_, constantName, userDefinedValue) ==
    replace(configContent_, dbConstantBoolRegex(constantName),
            BareDefine(constantName, userDefinedValue))

----------------------------------------------------------------------------
(* generateSalt, replaceEmptySalts                                         *)

charset ==
    <<"a", "b", "c", "d", "e", "f", "g", "h", "i", "j", "k", "l", "m", "n",
      "o", "p", "q", "r", "s", "t", "u", "v", "w", "x", "y", "z", "A", "B",
      "C", "D", "E", "F", "G", "H", "I", "J", "K", "L", "M", "N", "O", "P",
      "Q", "R", "S", "T", "U", "V", "W", "X", "Y", "Z", "0", "1", "2", "3",
      "4", "5", "6", "7", "8", "9", "!", "@", "#", "$", "%", "^", "&", "*",
      "(", ")", "-", "_", "=", "+", "[", "]", "{", "}", "|", ";", ":", ",",
      ".", "<", ">", "?", "/">>

saltLength == 64

\* Math.random() is modelled as a stream of fractions r / RandomResolution,
\* 0 <= r < RandomResolution; the n-th draw of the source rng is
RandomResolution == 100

Strides == {0, 1, 3}

RandomSources == [seed : 0..(RandomResolution - 1), stride : Strides]

random(rng, n) == (rng.seed + n * rng.stride) % RandomResolution

\* the index with Math.ceil in the place of Math.floor
RandomIndexCeil(r) == (r * Len(charset) + RandomResolution - 1) \div RandomResolution

\* Math.floor(Math.random() * charset.length), for the draw r
RandomIndex(r) == (r * Len(charset)) \div RandomResolution

\* charset[index]: undefined beyond the end, which join('') renders as ''
CharAt(cs, index) == IF index >= 0 /\ index < Len(cs) THEN <<cs[index + 1]>> ELSE <<>>

\* Array.prototype.join('') of an array of characters and undefineds
joinEmpty(array) ==
    LET defined == SelectSeq([i \in 1..Len(array) |-> i], LAMBDA i : array[i] # <<>>)
    IN  [k \in 1..Len(defined) |-> array[defined[k]][1]]

\* Array.from({ length: saltLength }, () => charset[...]).join(''), on the
\* draws from the n-th on
generateSalt(rng, n) ==
    joinEmpty([i \in 1..saltLength |-> CharAt(charset, RandomIndex(random(rng, n + i - 1)))])

saltConstants ==
    << <<"A", "U", "T", "H", "_", "K", "E", "Y">>,
       <<"S", "E", "C", "U", "R", "E", "_", "A", "U", "T", "H", "_", "K", "E", "Y">>,
       <<"L", "O", "G", "G", "E", "D", "_", "I", "N", "_", "K", "E", "Y">>,
       <<"N", "O", "N", "C", "E", "_", "K", "E", "Y">>,
       <<"A", "U", "T", "H", "_", "S", "A", "L", "T">>,
       <<"S", "E", "C", "U", "R", "E", "_", "A", "U", "T", "H", "_", "S", "A", "L", "T">>,
       <<"L", "O", "G", "G", "E", "D", "_", "I", "N", "_", "S", "A", "L", "T">>,
       <<"N", "O", "N", "C", "E", "_", "S", "A", "L", "T">> >>

SaltPlaceholder ==
    <<"p", "u", "t", " ", "y", "o", "u", "r", " ", "u", "n", "i", "q", "u",
      "e", " ", "p", "h", "r", "a", "s", "e", " ", "h", "e", "r", "e">>

\* define\\(\\s*'${constant}'\\s*,\\s*'put your unique phrase here'\\s*\\);
emptySaltRegex(constant) ==
    DefineHead(constant) \o Lit(<<QUOTE>> \o SaltPlaceholder \o <<QUOTE>>)
    \o SpaceStar \o Lit(StatementEnd)

\* the forEach over saltConstants from the k-th constant on; every pass
\* draws one salt, whether its regular expression matches or not
RECURSIVE ReplaceSaltsFrom(_, _, _)
ReplaceSaltsFrom(configContent_, rng, k) ==
    IF k > Len(saltConstants) THEN configContent_
    ELSE LET constant == saltConstants[k]
             generatedSalt == generateSalt(rng, (k - 1) * saltLength)
         IN  ReplaceSaltsFrom(
                 replace(configContent_, emptySaltRegex(constant),
                         QuotedDefine(constant, generatedSalt)),
                 rng, k + 1)

replaceEmptySalts(configContent_, rng) == ReplaceSaltsFrom(configContent_, rng, 1)

----------------------------------------------------------------------------
(* The templater's calls                                                   *)

\* the statements configuration files are made of: the constant a statement
\* defines (empty for none) and its text
Statements ==
    { [name |-> <<"D", "B", "_", "N", "A", "M", "E">>,
       text |-> <<"d", "e", "f", "i", "n", "e", "(", " ", "'", "D", "B", "_",
                 "N", "A", "M", "E", "'", ",", " ", "'", "o", "l", "d", "'",
                 " ", ")", ";">>],
      [name |-> <<"D", "B", "_", "N", "A", "M", "E">>,
       text |-> <<"d", "e", "f", "i", "n", "e", "(", "'", "D", "B", "_", "N",
                 "A", "M", "E", "'", ",", "'", "o", "l", "d", "'", ")", ";">>],
      [name |-> <<"D", "B", "_", "U", "S", "E", "R">>,
       text |-> <<"d", "e", "f", "i", "n", "e", "(", " ", "'", "D", "B", "_",
                 "U", "S", "E", "R", "'", ",", " ", "'", "o", "l", "d", "'",
                 " ", ")", ";">>],
      [name |-> <<"W", "P", "_", "D", "E", "B", "U", "G">>,
       text |-> <<"d", "e", "f", "i", "n", "e", "(", " ", "'", "W", "P", "_",
                 "D", "E", "B", "U", "G", "'", ",", " ", "f", "a", "l", "s",
                 "e", " ", ")", ";">>],
      [name |-> <<"W", "P", "_", "D", "E", "B", "U", "G">>,
       text |-> <<"d", "e", "f", "i", "n", "e", "(", "'", "W", "P", "_", "D",
                 "E", "B", "U", "G", "'", ",", "t", "r", "u", "e", ")", ";">>],
      [name |-> <<>>,
       text |-> <<"$", "t", "a", "b", "l", "e", "_", "p", "r", "e", "f", "i",
                 "x", " ", "=", " ", "'", "w", "p", "_", "'", ";">>],
      [name |-> <<>>,
       text |-> <<"o", "b", "_", "s", "t", "a", "r", "t", "(", ")", ";">>],
      [name |-> <<"A", "U", "T", "H", "_", "K", "E", "Y">>,
       text |-> <<"d", "e", "f", "i", "n", "e", "(", " ", "'", "A", "U", "T",
                 "H", "_", "K", "E", "Y", "'", ",", " ", "'", "p", "u", "t",
                 " ", "y", "o", "u", "r", " ", "u", "n", "i", "q", "u", "e",
                 " ", "p", "h", "r", "a", "s", "e", " ", "h", "e", "r", "e",
                 "'", " ", ")", ";">>],
      [name |-> <<"A", "U", "T", "H", "_", "K", "E", "Y">>,
       text |-> <<"d", "e", "f", "i", "n", "e", "(", " ", "'", "A", "U", "T",
                 "H", "_", "K", "E", "Y", "'", ",", " ", "'", "c", "o", "n",
                 "f", "i", "g", "u", "r", "e", "d", "'", " ", ")", ";">>],
      [name |-> <<"N", "O", "N", "C", "E", "_", "S", "A", "L", "T">>,
       text |-> <<"d", "e", "f", "i", "n", "e", "(", "'", "N", "O", "N", "C",
                 "E", "_", "S", "A", "L", "T", "'", ",", "'", "p", "u", "t",
                 " ", "y", "o", "u", "r", " ", "u", "n", "i", "q", "u", "e",
                 " ", "p", "h", "r", "a", "s", "e", " ", "h", "e", "r", "e",
                 "'", ")", ";">>] }

MaxStatements == 2

\* a configuration file: statements one to a line, no constant defined twice
ConfigFiles ==
    {f \in UNION {[1..n -> Statements] : n \in 0..MaxStatements} :
        \A i, j \in DOMAIN f : i # j => (f[i].text # f[j].text /\ (f[i].name = <<>> \/ f[i].name # f[j].name))}

TextOf(f) == join([i \in DOMAIN f |-> f[i].text], NL)

CallNames == {<<"D", "B", "_", "N", "A", "M", "E">>, <<"D", "B", "_", "U", "S", "E", "R">>, <<"W", "P", "_", "D", "E", "B", "U", "G">>}

NewValues == {<<"n", "e", "w">>, <<"o", "l", "d">>, <<"a", "$", "$", "b">>, <<"a", "$", "&", "b">>, <<"$", "1">>}

BoolValues == {<<"t", "r", "u", "e">>, <<"f", "a", "l", "s", "e">>}

NoCall == [op |-> "none", name |-> <<>>, value |-> <<>>]

TemplaterStart ==
    /\ configContent \in {TextOf(f) : f \in ConfigFiles}
    /\ tplCall = NoCall
    /\ tplResult = <<>>
    /\ tplPc = "start"
    /\ tplSource = [seed |-> 0, stride |-> 0]

TemplaterIdle ==
    /\ configContent = <<>>
    /\ tplCall = NoCall
    /\ tplResult = <<>>
    /\ tplPc = "idle"
    /\ tplSource = [seed |-> 0, stride |-> 0]

ReplaceDbConstant ==
    /\ tplPc = "start"
    /\ \E constantName \in CallNames, userDefinedValue \in NewValues :
        /\ tplCall' = [op |-> "replaceDbConstant", name |-> constantName,
                       value |-> userDefinedValue]
        /\ tplResult' = replaceDbConstant(configContent, constantName, userDefinedValue)
    /\ tplPc' = "done"
    /\ UNCHANGED <<configContent, tplSource>>
    /\ UNCHANGED <<stripVars, extractVars, fetchVars, scanVars, saltVars>>

ReplaceDbConstantBool ==
    /\ tplPc = "start"
    /\ \E constantName \in CallNames, userDefinedValue \in BoolValues :
        /\ tplCall' = [op |-> "replaceDbConstantBool", name |-> constantName,
                       value |-> userDefinedValue]
        /\ tplResult' = replaceDbConstantBool(configContent, constantName, userDefinedValue)
    /\ tplPc' = "done"
    /\ UNCHANGED <<configContent, tplSource>>
    /\ UNCHANGED <<stripVars, extractVars, fetchVars, scanVars, saltVars>>

ReplaceEmptySalts ==
    /\ tplPc = "start"
    /\ \E source \in RandomSources :
        /\ tplSource' = source
        /\ tplResult' = replaceEmptySalts(configContent, source)
    /\ tplCall' = [op |-> "replaceEmptySalts", name |-> <<>>, value |-> <<>>]
    /\ tplPc' = "done"
    /\ UNCHANGED configContent
    /\ UNCHANGED <<stripVars, extractVars, fetchVars, scanVars, saltVars>>

SaltStart ==
    /\ salt = <<>>
    /\ saltSource = [seed |-> 0, stride |-> 0]
    /\ saltPc = "start"

SaltIdle ==
    /\ salt = <<>>
    /\ saltSource = [seed |-> 0, stride |-> 0]
    /\ saltPc = "idle"

GenerateSalt ==
    /\ saltPc = "start"
    /\ \E source \in RandomSources :
        /\ saltSource' = source
        /\ salt' = generateSalt(source, 0)
    /\ saltPc' = "generated"
    /\ UNCHANGED <<stripVars, extractVars, fetchVars, scanVars, tplVars>>

Range(f) == {f[i] : i \in DOMAIN f}

ConfigLines == split(configContent, NL)

ResultLines == split(tplResult, NL)

ReplaceAt(lines, i, line) == [lines EXCEPT ![i] = line]

\* the whole line is one statement that the regular expression re matches
IsStatement(line, re) ==
    LET m == exec(re, line)
    IN  /\ m.found /\ m.index = 0 /\ m.end = Len(line)
        /\ indexOf(line, StatementEnd) = Len(line) - 2

\* C4: when the text holds a single-quoted define of the name, the result
\* holds define( 'name', 'newValue' ); with the new value verbatim and the
\* old statement is gone; when it holds none the result is the input.
ReplaceConstantVerbatim ==
    (tplPc = "done" /\ tplCall.op = "replaceDbConstant") =>
        LET m == exec(dbConstantRegex(tplCall.name), configContent)
            old == slice(configContent, m.index, m.end)
            new == QuotedDefine(tplCall.name, tplCall.value)
        IN  IF m.found
            THEN /\ indexOf(tplResult, new) # -1
                 /\ old # new => indexOf(tplResult, old) = -1
            ELSE tplResult = configContent

\* C8: when a line of the text is define( 'name', <bareword> ); the result
\* is the text with that one statement replaced by define( 'name', newValue );
\* and every other character, the statements after it included, unchanged.
ReplaceBooleanKeepsTheRest ==
    (tplPc = "done" /\ tplCall.op = "replaceDbConstantBool") =>
        \A i \in 1..Len(ConfigLines) :
            IsStatement(ConfigLines[i], dbConstantBoolRegex(tplCall.name)) =>
                tplResult = join(ReplaceAt(ConfigLines, i,
                                           BareDefine(tplCall.name, tplCall.value)), NL)

\* line is define( 'constant', '<value>' ); with a value of 64 characters
\* of the generator's alphabet
IsFilledSalt(line, constant) ==
    LET head == Len(QuotedDefine(constant, <<>>)) - Len(<<QUOTE, SPACE>> \o StatementEnd)
        value == slice(line, head, head + 64)
    IN  /\ Len(value) = 64
        /\ \A i \in 1..Len(value) : value[i] \in Range(charset)
        /\ line = QuotedDefine(constant, value)

\* C3: a define of one of the eight names holding the placeholder becomes a
\* define of that name whose value is 64 characters of the generator's
\* alphabet, whatever secret was generated; every other line is unchanged.
FillSecretPlaceholdersShape ==
    (tplPc = "done" /\ tplCall.op = "replaceEmptySalts") =>
        /\ Len(ResultLines) = Len(ConfigLines)
        /\ \A i \in 1..Len(ConfigLines) :
            IF \E k \in 1..Len(saltConstants) :
                    IsStatement(ConfigLines[i], emptySaltRegex(saltConstants[k]))
            THEN \E k \in 1..Len(saltConstants) :
                    /\ IsStatement(ConfigLines[i], emptySaltRegex(saltConstants[k]))
                    /\ i <= Len(ResultLines)
                    /\ IsFilledSalt(ResultLines[i], saltConstants[k])
            ELSE i <= Len(ResultLines) /\ ResultLines[i] = ConfigLines[i]

\* C9 as stated: a generated secret has exactly 64 characters, each of a
\* fixed alphabet of exactly 94 distinct characters.
SaltFrom94 ==
    saltPc = "generated" =>
        /\ Len(salt) = 64
        /\ \A i \in 1..Len(salt) : salt[i] \in Range(charset)
        /\ Cardinality(Range(charset)) = 94

\* C9 as amended: a generated secret has exactly 64 characters, each of a
\* fixed alphabet of exactly 89 distinct characters.
SaltFrom89 ==
    saltPc = "generated" =>
        /\ Len(salt) = 64
        /\ \A i \in 1..Len(salt) : salt[i] \in Range(charset)
        /\ Cardinality(Range(charset)) = 89

\* a secret has been generated from draws that differ
SaltGenerated ==
    /\ saltPc = "generated"
    /\ saltSource.stride > 0
    /\ \E i, j \in 1..Len(salt) : salt[i] # salt[j]

----------------------------------------------------------------------------
(* The specifications, one for each component.                            *)

Others(except) ==
    /\ except = "strip" \/ StripIdle
    /\ except = "extract" \/ ExtractIdle
    /\ except = "fetch" \/ FetchIdle
    /\ except = "scan" \/ ScanIdle
    /\ except = "templater" \/ TemplaterIdle
    /\ except = "salt" \/ SaltIdle

InitStrip == StripStart /\ Others("strip")

NextStrip == Strip \/ StripAgain

SpecStrip == InitStrip /\ [][NextStrip]_vars

InitExtract == ExtractStart /\ Others("extract")

NextExtract == OnEntry \/ ExtractResolves \/ ExtractRejects

SpecExtract == InitExtract /\ [][NextExtract]_vars

InitFetch == FetchStart /\ Others("fetch")

SpecFetch == InitFetch /\ [][NextFetch]_vars

InitScan == ScanStart /\ Others("scan")

NextScan == scanDirectory

SpecScan == InitScan /\ [][NextScan]_vars

InitTemplater == TemplaterStart /\ Others("templater")

NextTemplater == ReplaceDbConstant \/ ReplaceDbConstantBool \/ ReplaceEmptySalts

SpecTemplater == InitTemplater /\ [][NextTemplater]_vars

InitSalt == SaltStart /\ Others("salt")

NextSalt == GenerateSalt

SpecSalt == InitSalt /\ [][NextSalt]_vars

====
